---- MODULE Spec2Model ----
(***************************************************************************)
(* AURA agent runtime: the control loop of CoreAgentController.run         *)
(* (core_controller.py), the Safety engine (safety/) and the Executor      *)
(* dispatch (tools/), as one state machine.                                *)
(*                                                                         *)
(* Conventions.  A Python dict with insertion order is a sequence of       *)
(* <<key, value>> pairs with distinct keys; a dict key that is missing is  *)
(* the marker Absent (or has_params = FALSE); parameter values are         *)
(* sequences of one-character strings so that the substring test of the    *)
(* policy can be computed; f-strings are tuples of their pieces.           *)
(***************************************************************************)
EXTENDS Integers, Sequences, FiniteSets, TLC

\* ------------------------------------------------------------------------
\* Bounds of the model
\* ------------------------------------------------------------------------
MaxStepsBound == 4
MaxFailuresBound == 2
MaxRuns == 2

\* ------------------------------------------------------------------------
\* Python values
\* ------------------------------------------------------------------------
Absent == "<absent>"
NoneStr == "<None>"
NoneObs == <<>>

CmdRm == <<"r", "m", " ", "x">>
ValCalc == <<"c">>
ValPath == <<"p">>

\* dict.get(key, default) on an ordered dict
ParamGet(params, key, default) ==
    IF \E i \in 1..Len(params) : params[i][1] = key
    THEN LET i == CHOOSE j \in 1..Len(params) : params[j][1] = key IN params[i][2]
    ELSE default

ParamKeys(params) == {params[i][1] : i \in 1..Len(params)}

\* dict == dict : same key/value pairs, whatever the insertion order
DictEq(p, q) == {p[i] : i \in 1..Len(p)} = {q[i] : i \in 1..Len(q)}

\* "rm" in command : substring test
ContainsRm(cmd) == \E i \in 1..(Len(cmd) - 1) : cmd[i] = "r" /\ cmd[i + 1] = "m"

\* action.get("tool"), action.get("tool", ""), action.get("params", {})
ActionTool(action) == IF action.tool = Absent THEN NoneStr ELSE action.tool
ActionToolOrEmpty(action) == IF action.tool = Absent THEN "" ELSE action.tool
ActionParams(action) == IF action.has_params THEN action.params ELSE <<>>

MkAction(type, tool, has_params, params, message) ==
    [type |-> type, tool |-> tool, has_params |-> has_params,
     params |-> params, message |-> message]

NoAction == MkAction("none", Absent, FALSE, <<>>, Absent)

\* ------------------------------------------------------------------------
\* What the model behind the oracle (Brain.next_action) may answer
\* ------------------------------------------------------------------------
StopMsg == MkAction("STOP", Absent, FALSE, <<>>, "done by oracle")
StopNoMsg == MkAction("STOP", Absent, FALSE, <<>>, Absent)
Respond == MkAction("RESPONSE", Absent, FALSE, <<>>, "oracle answer")
ActX == MkAction("ACTION", "X", TRUE, <<>>, Absent)
ActOpenApp == MkAction("ACTION", "open_app", TRUE, <<<<"name", ValCalc>>>>, Absent)
ActReadFile == MkAction("ACTION", "READ_FILE", TRUE, <<<<"path", ValPath>>>>, Absent)
ActShellRm == MkAction("ACTION", "SHELL_EXECUTE", TRUE, <<<<"command", CmdRm>>>>, Absent)
ActRunShellRm == MkAction("ACTION", "run_shell", TRUE, <<<<"command", CmdRm>>>>, Absent)

\* LLMRouter.generate_response when no provider is available
ActError == MkAction("ERROR", Absent, FALSE, <<>>, "No LLM provider available")

\* a model output without the "type" key
OutputNoType == MkAction(Absent, "X", TRUE, <<>>, Absent)

ProfOnlyX == {ActX}
ProfLoop == {ActX, StopMsg}
ProfTools == {ActOpenApp, ActReadFile, Respond}
ProfShell == {ActShellRm, ActRunShellRm, StopNoMsg}
ProfNoType == {ActX, OutputNoType}
ProfError == {ActError, ActX}
OracleProfiles ==
    {ProfOnlyX, ProfLoop, ProfTools, ProfShell, ProfNoType, ProfError}
AllActions == UNION OracleProfiles

MalformedStop ==
    MkAction("STOP", Absent, FALSE, <<>>,
             "Stopped due to malformed action (missing 'type').")

ValidateDefaultsToAction(output) ==
    IF output.type = Absent THEN [output EXCEPT !.type = "ACTION"] ELSE output

\* Brain.next_action : minimal validation of the parsed output
Validate(output) == IF output.type = Absent THEN MalformedStop ELSE output

\* ------------------------------------------------------------------------
\* Safety engine (safety/)
\* ------------------------------------------------------------------------
\* Safety._action_key : f"{tool}:{str(params)}", order-sensitive in params,
\* "None" when the params key is missing
ActionKey(action) ==
    <<ActionTool(action),
      [none |-> ~action.has_params,
       items |-> IF action.has_params THEN action.params ELSE <<>>]>>

ClassifyUnknownLow(action) ==
    LET tool == ActionToolOrEmpty(action)
        params == ActionParams(action)
    IN  IF tool \in {"run_shell"} /\ ContainsRm(ParamGet(params, "command", <<>>))
        THEN "HIGH"
        ELSE IF tool = "write_file" THEN "MEDIUM"
        ELSE "LOW"

\* SafetyPolicy.classify
Classify(action) ==
    LET tool == ActionToolOrEmpty(action)
        params == ActionParams(action)
    IN  IF tool \in {"run_shell"} /\ ContainsRm(ParamGet(params, "command", <<>>))
        THEN "HIGH"
        ELSE IF tool \in {"open_app", "open_browser"} THEN "LOW"
        ELSE IF tool = "write_file" THEN "MEDIUM"
        ELSE "MEDIUM"

MkDecision(decision, level, reason) ==
    [decision |-> decision, level |-> level, reason |-> reason]

NoDecision == MkDecision("none", "none", "")

CheckAllowFirst(action, allowedSet, deniedSet) ==
    LET action_key == ActionKey(action)
        level == Classify(action)
    IN  IF action_key \in allowedSet
        THEN MkDecision("ALLOW", "LOW", "Previously approved action")
        ELSE IF action_key \in deniedSet
        THEN MkDecision("DENY", "HIGH", "Action explicitly denied by user")
        ELSE IF level = "LOW" THEN MkDecision("ALLOW", level, "Low-risk action")
        ELSE IF level = "MEDIUM"
        THEN MkDecision("CONFIRM", level, "Requires user confirmation")
        ELSE MkDecision("DENY", level, "High-risk action blocked")

CheckHighBeforeAllow(action, allowedSet, deniedSet) ==
    LET action_key == ActionKey(action)
        level == Classify(action)
    IN  IF action_key \in deniedSet
        THEN MkDecision("DENY", "HIGH", "Action explicitly denied by user")
        ELSE IF level = "HIGH" THEN MkDecision("DENY", level, "High-risk action blocked")
        ELSE IF action_key \in allowedSet
        THEN MkDecision("ALLOW", "LOW", "Previously approved action")
        ELSE IF level = "LOW" THEN MkDecision("ALLOW", level, "Low-risk action")
        ELSE MkDecision("CONFIRM", level, "Requires user confirmation")

\* Safety.check
Check(action, allowedSet, deniedSet) ==
    LET action_key == ActionKey(action)
        level == Classify(action)
    IN  IF action_key \in deniedSet
        THEN MkDecision("DENY", "HIGH", "Action explicitly denied by user")
        ELSE IF action_key \in allowedSet
        THEN MkDecision("ALLOW", "LOW", "Previously approved action")
        ELSE IF level = "LOW" THEN MkDecision("ALLOW", level, "Low-risk action")
        ELSE IF level = "MEDIUM"
        THEN MkDecision("CONFIRM", level, "Requires user confirmation")
        ELSE MkDecision("DENY", level, "High-risk action blocked")

AllowedAllowOnly(decision) == decision.decision \in {"ALLOW"}

\* run() line 227
AllowedDecision(decision) == decision.decision \in {"ALLOW", "CONFIRM"}

\* ------------------------------------------------------------------------
\* Tool dispatch (tools/)
\* ------------------------------------------------------------------------
\* Executor.__init__ : the names under which the tools are registered
RegisteredTools ==
    {"open_browser", "open_app", "SHELL_EXECUTE", "READ_FILE", "WRITE_FILE",
     "WRITE_AND_OPEN", "SEARCH_WEB", "SEARCH_GOOGLE"}

ONLINE_ONLY_TOOLS == {"SEARCH_WEB", "SEARCH_GOOGLE", "OPEN_BROWSER"}

\* run(self, ...) signatures: required and optional keyword parameters
RequiredParams(tool) ==
    CASE tool = "open_browser" -> {"url"}
      [] tool = "open_app" -> {"name"}
      [] tool = "SHELL_EXECUTE" -> {"command"}
      [] tool = "READ_FILE" -> {"path"}
      [] tool \in {"WRITE_FILE", "WRITE_AND_OPEN"} -> {"path", "content"}
      [] tool \in {"SEARCH_WEB", "SEARCH_GOOGLE"} -> {"query"}
      [] OTHER -> {}

OptionalParams(tool) ==
    IF tool \in {"SEARCH_WEB", "SEARCH_GOOGLE"} THEN {"num_results"} ELSE {}

\* what a tool handler can do once it is entered
HandlerOutcomes ==
    {[ok |-> TRUE, val |-> "tool output"], [ok |-> FALSE, val |-> "tool error"]}

MkExec(path, ok, result, error) ==
    [path |-> path, ok |-> ok, result |-> result, error |-> error]

ExecuteRegistryFirst(action, offline, outcome) ==
    LET tool_name == ActionTool(action)
        params == ActionParams(action)
    IN  IF action.type # "ACTION"
        THEN MkExec("non_action", FALSE, NoneStr, "Executor received non-ACTION type")
        ELSE IF tool_name \notin RegisteredTools
        THEN MkExec("not_found", FALSE, NoneStr, "Tool not found")
        ELSE IF offline /\ tool_name \in ONLINE_ONLY_TOOLS
        THEN MkExec("offline_message", TRUE, "offline mode message", NoneStr)
        ELSE IF ~(RequiredParams(tool_name) \subseteq ParamKeys(params)
                  /\ ParamKeys(params) \subseteq
                       (RequiredParams(tool_name) \cup OptionalParams(tool_name)))
        THEN MkExec("bad_arguments", FALSE, NoneStr, "TypeError")
        ELSE IF outcome.ok
        THEN MkExec(tool_name, TRUE, outcome.val, NoneStr)
        ELSE MkExec(tool_name, FALSE, NoneStr, outcome.val)

\* Executor.execute : the branch taken and the value returned or raised
Execute(action, offline, outcome) ==
    LET tool_name == ActionTool(action)
        params == ActionParams(action)
    IN  IF action.type # "ACTION"
        THEN MkExec("non_action", FALSE, NoneStr, "Executor received non-ACTION type")
        ELSE IF offline /\ tool_name \in ONLINE_ONLY_TOOLS
        THEN MkExec("offline_message", TRUE, "offline mode message", NoneStr)
        ELSE IF tool_name \notin RegisteredTools
        THEN MkExec("not_found", FALSE, NoneStr, "Tool not found")
        ELSE IF ~(RequiredParams(tool_name) \subseteq ParamKeys(params)
                  /\ ParamKeys(params) \subseteq
                       (RequiredParams(tool_name) \cup OptionalParams(tool_name)))
        THEN MkExec("bad_arguments", FALSE, NoneStr, "TypeError")
        ELSE IF outcome.ok
        THEN MkExec(tool_name, TRUE, outcome.val, NoneStr)
        ELSE MkExec(tool_name, FALSE, NoneStr, outcome.val)

TruncateAt == 500

\* VoiceEngine.observe
Observe(result, error) ==
    IF error # NoneStr /\ error # ""
    THEN <<"Action failed with error: ", error>>
    ELSE IF result = NoneStr
    THEN <<"Action completed with no output.">>
    ELSE IF Len(result) > TruncateAt
    THEN <<"Action completed. Result: ",
           SubSeq(result, 1, TruncateAt) \o "... (truncated)">>
    ELSE <<"Action completed. Result: ", result>>

\* ------------------------------------------------------------------------
\* LLM router (brain/llm_router.py) : values
\* ------------------------------------------------------------------------
\* the providers _register_providers tries to register, in that order
ProviderNames == {"ollama", "gemini"}

\* the names a caller may ask for
RequestedNames == {"ollama", "gemini", "GEMINI", "openai"}

\* str.lower() and str.upper() on those names
Lower(name) == IF name = "GEMINI" THEN "gemini" ELSE name
Upper(name) ==
    CASE name = "gemini" -> "GEMINI"
      [] name = "ollama" -> "OLLAMA"
      [] OTHER -> name

\* provider.model
ModelOf(name) == IF name = "ollama" THEN "qwen2.5:7b" ELSE "gemini-2.5-flash"

\* LLMRouter.__init__ : the provider that is current after construction
DefaultCurrent(default_provider, registered) ==
    IF default_provider \in registered THEN default_provider
    ELSE IF "ollama" \in registered THEN "ollama"
    ELSE IF "gemini" \in registered THEN "gemini"
    ELSE default_provider

NoReply == [op |-> "none"]

\* the threads that share one Safety object
Threads == {1, 2}

\* no Safety.check call is in progress
NoCheck == [at |-> "idle"]
NoChecking == [t \in Threads |-> NoCheck]

\* ------------------------------------------------------------------------
\* Orchestrator (core_controller.py)
\* ------------------------------------------------------------------------
VARIABLES
    max_steps, max_failures,      \* AgentState configuration
    step_count, failure_count,    \* AgentState counters
    last_actions,                 \* AgentState.last_actions
    trace,                        \* ExecutionTrace.steps (self.trace)
    allowed, denied,              \* PermissionStore
    oracle,                       \* the actions the injected brain may return
    pc,                           \* position of run()
    action, safety_decision,      \* locals of run()
    success, result, error, observation,
    last_observation, last_error,
    ret,                          \* the AgentResult returned by the last run
    exit_point,                   \* the return statement the last run left by
    runs,                         \* number of run() calls so far
    calls,                        \* port calls made by the current run
    entry,                        \* self.state / self.trace as the run found them
    thoughts,                     \* what the oracle returned in the current run
    llm_output,                   \* the parsed model output of the last oracle call
    is_offline,                   \* OfflineState.is_offline() as the last execute() saw it
    providers,                    \* LLMRouter._providers (the registered names)
    current_provider_name,        \* LLMRouter._current_provider_name
    gemini_available,             \* GeminiClient._available
    chat_history,                 \* the messages each provider keeps
    conversation,                 \* the prompts answered so far, in order
    reply,                        \* what the last service or router call returned
    checking,                     \* each thread's Safety.check call in progress
    exec_path                     \* branch taken by the last Executor.execute

vars ==
    <<max_steps, max_failures, step_count, failure_count, last_actions, trace,
      allowed, denied, oracle, pc, action, safety_decision, success, result,
      error, observation, last_observation, last_error, ret, exit_point, runs,
      calls, entry, thoughts, llm_output, exec_path, is_offline, providers,
      current_provider_name, gemini_available, chat_history, conversation, reply,
      checking>>

config == <<max_steps, max_failures, oracle>>
agent_state == <<step_count, failure_count, last_actions>>
permissions == <<allowed, denied>>
act_locals == <<success, result, error, exec_path>>
carry == <<last_observation, last_error>>

\* state of the ports that run() does not write
router == <<providers, current_provider_name, gemini_available, chat_history,
            conversation, reply>>
aux == <<is_offline, router, checking>>

NoCalls ==
    [retrieve |-> 0, think |-> 0, check |-> 0, dispatch |-> 0, observe |-> 0,
     store |-> 0]

NoResult == [success |-> FALSE, message |-> <<>>]

MsgMaxSteps == <<"Stopped: maximum step limit reached.">>
MsgFailures == <<"Stopped: too many consecutive failures.">>
ValUnknown == <<"u", "n", "k", "n", "o", "w", "n">>

EntryOf(sc, fc, la, tr) ==
    [step_count |-> sc, failure_count |-> fc, last_actions |-> la, trace_len |-> Len(tr)]

\* CoreAgentController.__init__ with Safety(), Executor(), AgentState(...)
\* the router of a Brain() built with the defaults, both providers registered
RouterDefault ==
    /\ providers = ProviderNames
    /\ current_provider_name = DefaultCurrent("ollama", ProviderNames)
    /\ gemini_available = TRUE
    /\ chat_history = [n \in ProviderNames |-> <<>>]
    /\ conversation = <<>>
    /\ reply = NoReply

Init ==
    /\ max_steps \in 0..MaxStepsBound
    /\ max_failures \in 0..MaxFailuresBound
    /\ oracle \in OracleProfiles
    /\ step_count = 0
    /\ failure_count = 0
    /\ last_actions = <<>>
    /\ trace = <<>>
    /\ allowed = {}
    /\ denied = {}
    /\ pc = "idle"
    /\ action = NoAction
    /\ safety_decision = NoDecision
    /\ success = FALSE
    /\ result = NoneStr
    /\ error = NoneStr
    /\ observation = NoneObs
    /\ last_observation = NoneObs
    /\ last_error = NoneStr
    /\ ret = NoResult
    /\ exit_point = "none"
    /\ runs = 0
    /\ calls = NoCalls
    /\ entry = EntryOf(0, 0, <<>>, <<>>)
    /\ thoughts = <<>>
    /\ llm_output = NoAction
    /\ exec_path = "none"
    /\ is_offline = FALSE
    /\ RouterDefault
    /\ checking = NoChecking

\* _terminate / the AgentResult built by _smart_terminate (trace is self.trace)
TerminateLoopFails(ok, message, point) ==
    /\ ret' = [success |-> ok /\ point # "loop", message |-> message]
    /\ exit_point' = point
    /\ pc' = "done"

Terminate(ok, message, point) ==
    /\ ret' = [success |-> ok, message |-> message]
    /\ exit_point' = point
    /\ pc' = "done"

\* AgentResult.trace of every result this controller returned: _terminate and
\* _smart_terminate pass self.trace itself, not a copy
ResultTrace == trace

\* run() lines 128-145 : entered by AgentService.run for each request
StartRun ==
    /\ pc \in {"idle", "done", "raised"}
    /\ runs < MaxRuns
    /\ runs' = runs + 1
    /\ calls' = [NoCalls EXCEPT !.retrieve = 1]
    /\ entry' = EntryOf(step_count, failure_count, last_actions, trace)
    /\ thoughts' = <<>>
    /\ llm_output' = NoAction
    /\ last_observation' = NoneObs
    /\ last_error' = NoneStr
    /\ action' = NoAction
    /\ safety_decision' = NoDecision
    /\ success' = FALSE
    /\ result' = NoneStr
    /\ error' = NoneStr
    /\ observation' = NoneObs
    /\ exec_path' = "none"
    /\ ret' = NoResult
    /\ exit_point' = "none"
    /\ pc' = "check"
    /\ UNCHANGED <<config, agent_state, trace, permissions, aux>>

StepLimitOffByOne(sc, ms) == sc > ms

\* run() line 152
StepLimitReached(sc, ms) == sc >= ms

FailureLimitOffByOne(fc, mf) == fc > mf

\* run() line 158
FailureLimitReached(fc, mf) == fc >= mf

\* run() lines 152-162 : hard stop conditions
BudgetCheck ==
    /\ pc = "check"
    /\ IF StepLimitReached(step_count, max_steps)
       THEN Terminate(FALSE, MsgMaxSteps, "max_steps")
       ELSE IF FailureLimitReached(failure_count, max_failures)
       THEN Terminate(FALSE, MsgFailures, "max_failures")
       ELSE /\ pc' = "think"
            /\ UNCHANGED <<ret, exit_point>>
    /\ UNCHANGED <<config, agent_state, trace, permissions, action, safety_decision,
                   act_locals, observation, carry, runs, calls, entry, thoughts,
                   llm_output, aux>>

\* run() lines 173-179 : brain.next_action
Think ==
    /\ pc = "think"
    /\ \E output \in oracle :
          /\ llm_output' = output
          /\ action' = Validate(output)
          /\ thoughts' = Append(thoughts, action')
    /\ calls' = [calls EXCEPT !.think = @ + 1]
    /\ pc' = "kind"
    /\ UNCHANGED <<config, agent_state, trace, permissions, safety_decision,
                   act_locals, observation, carry, ret, exit_point, runs, entry,
                   aux>>

MessageAlwaysDefault(a, default) == default

\* action.get("message", default)
MessageOr(a, default) == IF a.message = Absent THEN default ELSE a.message

\* run() lines 194-205 : STOP and RESPONSE
TerminalKinds ==
    /\ pc = "kind"
    /\ IF action.type = "STOP"
       THEN Terminate(TRUE, <<MessageOr(action, "Task completed.")>>, "stop")
       ELSE IF action.type = "RESPONSE"
       THEN Terminate(TRUE, <<MessageOr(action, "I don't have a response.")>>, "response")
       ELSE /\ pc' = "loop"
            /\ UNCHANGED <<ret, exit_point>>
    /\ UNCHANGED <<config, agent_state, trace, permissions, action, safety_decision,
                   act_locals, observation, carry, runs, calls, entry, thoughts,
                   llm_output, aux>>

\* _is_repeated_action lines 346-349
Signature(a) == [tool |-> ActionTool(a), params |-> ActionParams(a)]

SigEq(s, t) == s.tool = t.tool /\ DictEq(s.params, t.params)

IsRepeatedNeedsTwo(a, history) ==
    /\ a.type = "ACTION"
    /\ Len(history) > 1
    /\ SigEq(Signature(a), history[Len(history)])

\* _is_repeated_action : the value returned
IsRepeatedAction(a, history) ==
    /\ a.type = "ACTION"
    /\ Len(history) > 0
    /\ SigEq(Signature(a), history[Len(history)])

RecordActionAnyKind(a, history) ==
    IF IsRepeatedAction(a, history)
    THEN history
    ELSE LET appended == Append(history, Signature(a))
         IN  IF Len(appended) > 3 THEN Tail(appended) ELSE appended

\* _is_repeated_action : self.state.last_actions afterwards
RecordAction(a, history) ==
    IF a.type # "ACTION" \/ IsRepeatedAction(a, history)
    THEN history
    ELSE LET appended == Append(history, Signature(a))
         IN  IF Len(appended) > 3 THEN Tail(appended) ELSE appended

\* _smart_terminate lines 369-387
SmartMessage(a) ==
    LET tool == ActionToolOrEmpty(a)
        params == ActionParams(a)
    IN  IF tool \in {"WRITE_FILE", "WRITE_AND_OPEN"}
        THEN <<"File saved successfully! Location: ", ParamGet(params, "path", ValUnknown)>>
        ELSE IF tool = "READ_FILE"
        THEN <<"File read from: ", ParamGet(params, "path", ValUnknown)>>
        ELSE IF tool = "SHELL_EXECUTE"
        THEN <<"Command executed: ", ParamGet(params, "command", <<>>)>>
        ELSE <<"Task completed successfully.">>

\* run() lines 210-216 : loop detection
LoopDetection ==
    /\ pc = "loop"
    /\ last_actions' = RecordAction(action, last_actions)
    /\ IF IsRepeatedAction(action, last_actions)
       THEN Terminate(TRUE, SmartMessage(action), "loop")
       ELSE /\ pc' = "safety"
            /\ UNCHANGED <<ret, exit_point>>
    /\ UNCHANGED <<config, step_count, failure_count, trace, permissions, action,
                   safety_decision, act_locals, observation, carry, runs, calls,
                   entry, thoughts,
                   llm_output, aux>>

\* run() lines 222-234 : safety check
SafetyCheckCaching ==
    /\ pc = "safety"
    /\ safety_decision' = Check(action, allowed, denied)
    /\ calls' = [calls EXCEPT !.check = @ + 1]
    /\ allowed' = IF safety_decision'.decision = "ALLOW"
                  THEN allowed \cup {ActionKey(action)} ELSE allowed
    /\ denied' = IF safety_decision'.decision = "DENY"
                 THEN denied \cup {ActionKey(action)} ELSE denied
    /\ IF ~AllowedDecision(safety_decision')
       THEN Terminate(FALSE, <<"Blocked by safety system: ", safety_decision'.reason>>,
                      "safety")
       ELSE /\ pc' = "act"
            /\ UNCHANGED <<ret, exit_point>>
    /\ UNCHANGED <<config, agent_state, trace, action, act_locals,
                   observation, carry, runs, entry, thoughts,
                   llm_output, aux>>

SafetyCheck ==
    /\ pc = "safety"
    /\ safety_decision' = Check(action, allowed, denied)
    /\ calls' = [calls EXCEPT !.check = @ + 1]
    /\ IF ~AllowedDecision(safety_decision')
       THEN Terminate(FALSE, <<"Blocked by safety system: ", safety_decision'.reason>>,
                      "safety")
       ELSE /\ pc' = "act"
            /\ UNCHANGED <<ret, exit_point>>
    /\ UNCHANGED <<config, agent_state, trace, permissions, action, act_locals,
                   observation, carry, runs, entry, thoughts,
                   llm_output, aux>>

FailureCountNeverReset(fc, ok) == IF ok THEN fc ELSE fc + 1

\* run() lines 247 and 258
NextFailureCount(fc, ok) == IF ok THEN 0 ELSE fc + 1

\* run() lines 240-266 : executor.execute inside try/except
Act ==
    /\ pc = "act"
    /\ \E offline \in BOOLEAN, outcome \in HandlerOutcomes :
          LET e == Execute(action, offline, outcome)
          IN  /\ success' = e.ok
              /\ result' = e.result
              /\ error' = e.error
              /\ exec_path' = e.path
              /\ failure_count' = NextFailureCount(failure_count, e.ok)
    /\ calls' = [calls EXCEPT !.dispatch = @ + 1]
    /\ pc' = "observe"
    /\ UNCHANGED <<config, step_count, last_actions, trace, permissions, action,
                   safety_decision, observation, carry, ret, exit_point, runs,
                   entry, thoughts,
                   llm_output, aux>>

\* run() lines 272-276 : perception.observe
ObserveStep ==
    /\ pc = "observe"
    /\ observation' = Observe(result, error)
    /\ calls' = [calls EXCEPT !.observe = @ + 1]
    /\ pc' = "trace"
    /\ UNCHANGED <<config, agent_state, trace, permissions, action, safety_decision,
                   act_locals, carry, ret, exit_point, runs, entry, thoughts,
                   llm_output, aux>>

\* TraceStep(...) as built at lines 288-296 (timestamp left out)
MkTraceStepIdFromOne(id, a, ok, res, obs, err) ==
    [step_id |-> id + 1, action |-> a, success |-> ok, result |-> res,
     observation |-> obs, error |-> err]

MkTraceStep(id, a, ok, res, obs, err) ==
    [step_id |-> id, action |-> a, success |-> ok, result |-> res,
     observation |-> obs, error |-> err]

\* run() lines 287-297 : trace.add_step
TraceStepAdd ==
    /\ pc = "trace"
    /\ trace' = Append(trace,
                       MkTraceStep(step_count, action, success, result, observation, error))
    /\ pc' = "store"
    /\ UNCHANGED <<config, agent_state, permissions, action, safety_decision,
                   act_locals, observation, carry, ret, exit_point, runs, calls,
                   entry, thoughts,
                   llm_output, aux>>

\* run() lines 303-309 : memory.store_step
StoreStep ==
    /\ pc = "store"
    /\ calls' = [calls EXCEPT !.store = @ + 1]
    /\ pc' = "advance"
    /\ UNCHANGED <<config, agent_state, trace, permissions, action, safety_decision,
                   act_locals, observation, carry, ret, exit_point, runs, entry,
                   thoughts, llm_output, aux>>

\* run() lines 315-317 : prepare for next iteration
AdvanceDropsError ==
    /\ pc = "advance"
    /\ last_observation' = observation
    /\ last_error' = NoneStr
    /\ step_count' = step_count + 1
    /\ pc' = "check"
    /\ UNCHANGED <<config, failure_count, last_actions, trace, permissions, action,
                   safety_decision, act_locals, observation, ret, exit_point, runs,
                   calls, entry, thoughts,
                   llm_output, aux>>

Advance ==
    /\ pc = "advance"
    /\ last_observation' = observation
    /\ last_error' = error
    /\ step_count' = step_count + 1
    /\ pc' = "check"
    /\ UNCHANGED <<config, failure_count, last_actions, trace, permissions, action,
                   safety_decision, act_locals, observation, ret, exit_point, runs,
                   calls, entry, thoughts,
                   llm_output, aux>>

\* the signatures an out-of-band allow/deny is tried with
PermKeys ==
    ({ActionKey(ActX), ActionKey(ActOpenApp), ActionKey(ActRunShellRm)}
        \cap {ActionKey(a) : a \in oracle})
    \cup {ActionKey(a) : a \in oracle \cap {ActError}}

\* PermissionStore.allow
PermAllow ==
    /\ \E k \in PermKeys : allowed' = allowed \cup {k}
    /\ allowed' # allowed
    /\ UNCHANGED <<config, agent_state, trace, denied, pc, action, safety_decision,
                   act_locals, observation, carry, ret, exit_point, runs, calls,
                   entry, thoughts,
                   llm_output, aux>>

\* PermissionStore.deny
PermDeny ==
    /\ \E k \in PermKeys : denied' = denied \cup {k}
    /\ denied' # denied
    /\ UNCHANGED <<config, agent_state, trace, allowed, pc, action, safety_decision,
                   act_locals, observation, carry, ret, exit_point, runs, calls,
                   entry, thoughts,
                   llm_output, aux>>

RunStep ==
    \/ BudgetCheck
    \/ Think
    \/ TerminalKinds
    \/ LoopDetection
    \/ SafetyCheck
    \/ Act
    \/ ObserveStep
    \/ TraceStepAdd
    \/ StoreStep
    \/ Advance

Next ==
    \/ StartRun
    \/ RunStep
    \/ PermAllow
    \/ PermDeny

Spec == Init /\ [][Next]_vars

\* run() is synchronous and every port call returns: a started run keeps stepping
FairSpec == Spec /\ WF_vars(RunStep)

\* ------------------------------------------------------------------------
\* Port calls that raise. run() has no try/except around memory.retrieve,
\* brain.next_action and memory.store_step: the exception leaves run()
\* without an AgentResult and the caller (AgentService.run) goes on to
\* serve the next request with the same controller.
\* ------------------------------------------------------------------------
\* run() line 141 : memory.retrieve raises
RetrieveRaises ==
    /\ pc \in {"idle", "done", "raised"}
    /\ runs < MaxRuns
    /\ runs' = runs + 1
    /\ calls' = [NoCalls EXCEPT !.retrieve = 1]
    /\ entry' = EntryOf(step_count, failure_count, last_actions, trace)
    /\ thoughts' = <<>>
    /\ llm_output' = NoAction
    /\ last_observation' = NoneObs
    /\ last_error' = NoneStr
    /\ action' = NoAction
    /\ safety_decision' = NoDecision
    /\ success' = FALSE
    /\ result' = NoneStr
    /\ error' = NoneStr
    /\ observation' = NoneObs
    /\ exec_path' = "none"
    /\ ret' = NoResult
    /\ exit_point' = "none"
    /\ pc' = "raised"
    /\ UNCHANGED <<config, agent_state, trace, permissions, aux>>

\* run() lines 173-179 : brain.next_action raises
ThinkRaises ==
    /\ pc = "think"
    /\ calls' = [calls EXCEPT !.think = @ + 1]
    /\ pc' = "raised"
    /\ UNCHANGED <<config, agent_state, trace, permissions, action, safety_decision,
                   act_locals, observation, carry, ret, exit_point, runs, entry,
                   thoughts, llm_output, aux>>

\* run() lines 303-309 : memory.store_step raises, after trace.add_step and
\* before step_count is incremented
StoreRaises ==
    /\ pc = "store"
    /\ calls' = [calls EXCEPT !.store = @ + 1]
    /\ pc' = "raised"
    /\ UNCHANGED <<config, agent_state, trace, permissions, action, safety_decision,
                   act_locals, observation, carry, ret, exit_point, runs, entry,
                   thoughts, llm_output, aux>>

PortRaises ==
    \/ RetrieveRaises
    \/ ThinkRaises
    \/ StoreRaises

FaultNext ==
    \/ Next
    \/ PortRaises

FaultSpec == Init /\ [][FaultNext]_vars

\* ------------------------------------------------------------------------
\* The tool dispatch and observation ports called on their own
\* (Executor.execute, VoiceEngine.observe), as src/test_tools.py calls them
\* ------------------------------------------------------------------------
\* a text of n characters
RECURSIVE Text(_)
Text(n) ==
    IF n = 0 THEN ""
    ELSE LET half == Text(n \div 2)
         IN  half \o half \o (IF n % 2 = 1 THEN "a" ELSE "")

ValQuery == <<"q">>
ValUrl == <<"u">>
ValNum == <<"5">>

ActSearchWeb == MkAction("ACTION", "SEARCH_WEB", TRUE, <<<<"query", ValQuery>>>>, Absent)
ActSearchGoogle ==
    MkAction("ACTION", "SEARCH_GOOGLE", TRUE,
             <<<<"query", ValQuery>>, <<"num_results", ValNum>>>>, Absent)
ActOpenBrowserUpper ==
    MkAction("ACTION", "OPEN_BROWSER", TRUE, <<<<"url", ValUrl>>>>, Absent)
ActOpenBrowser == MkAction("ACTION", "open_browser", TRUE, <<<<"url", ValUrl>>>>, Absent)
ActReadNoParams == MkAction("ACTION", "READ_FILE", FALSE, <<>>, Absent)
ActOpenAppExtra ==
    MkAction("ACTION", "open_app", TRUE,
             <<<<"name", ValCalc>>, <<"path", ValPath>>>>, Absent)
ActNoTool == MkAction("ACTION", Absent, TRUE, <<>>, Absent)

\* the actions execute() is called with
ToolActions ==
    {StopMsg, Respond, OutputNoType, ActX, ActNoTool, ActRunShellRm, ActShellRm,
     ActOpenApp, ActOpenAppExtra, ActReadFile, ActReadNoParams, ActOpenBrowser,
     ActOpenBrowserUpper, ActSearchWeb, ActSearchGoogle}

\* what a tool handler returns (None, a short text, texts around the
\* truncation length) or raises (str(e) short, empty or long)
ToolOutcomes ==
    {[ok |-> TRUE, val |-> NoneStr],
     [ok |-> TRUE, val |-> "tool output"],
     [ok |-> TRUE, val |-> Text(TruncateAt)],
     [ok |-> TRUE, val |-> Text(TruncateAt + 1)],
     [ok |-> FALSE, val |-> "tool error"],
     [ok |-> FALSE, val |-> ""],
     [ok |-> FALSE, val |-> Text(TruncateAt + 100)]}

ToolInit ==
    /\ max_steps = 0
    /\ max_failures = 0
    /\ oracle = ProfOnlyX
    /\ step_count = 0
    /\ failure_count = 0
    /\ last_actions = <<>>
    /\ trace = <<>>
    /\ allowed = {}
    /\ denied = {}
    /\ pc = "port_idle"
    /\ action = NoAction
    /\ safety_decision = NoDecision
    /\ success = FALSE
    /\ result = NoneStr
    /\ error = NoneStr
    /\ observation = NoneObs
    /\ last_observation = NoneObs
    /\ last_error = NoneStr
    /\ ret = NoResult
    /\ exit_point = "none"
    /\ runs = 0
    /\ calls = NoCalls
    /\ entry = EntryOf(0, 0, <<>>, <<>>)
    /\ thoughts = <<>>
    /\ llm_output = NoAction
    /\ exec_path = "none"
    /\ is_offline = FALSE
    /\ RouterDefault
    /\ checking = NoChecking

\* Executor.execute(action), caught as run() lines 244-258 catch it
ExecuteCall ==
    /\ pc = "port_idle"
    /\ \E a \in ToolActions, offline \in BOOLEAN, outcome \in ToolOutcomes :
          LET e == Execute(a, offline, outcome)
          IN  /\ action' = a
              /\ is_offline' = offline
              /\ success' = e.ok
              /\ result' = e.result
              /\ error' = e.error
              /\ exec_path' = e.path
    /\ observation' = NoneObs
    /\ pc' = "executed"
    /\ UNCHANGED <<config, agent_state, trace, permissions, safety_decision, carry,
                   ret, exit_point, runs, calls, entry, thoughts, llm_output,
                   router, checking>>

\* VoiceEngine.observe(action, result, error)
ObserveCall ==
    /\ pc = "executed"
    /\ observation' = Observe(result, error)
    /\ pc' = "port_idle"
    /\ UNCHANGED <<config, agent_state, trace, permissions, action, safety_decision,
                   act_locals, carry, ret, exit_point, runs, calls, entry, thoughts,
                   llm_output, aux>>

ToolNext ==
    \/ ExecuteCall
    \/ ObserveCall

ToolSpec == ToolInit /\ [][ToolNext]_vars

\* ------------------------------------------------------------------------
\* The service operations on the LLM router (AgentService, Brain, LLMRouter)
\* ------------------------------------------------------------------------
controller ==
    <<config, agent_state, trace, permissions, action, safety_decision, act_locals,
      observation, carry, ret, exit_point, runs, calls, entry, thoughts,
      llm_output, is_offline, checking>>

\* the AgentService singleton before initialize()
RouterInit ==
    /\ max_steps = 0
    /\ max_failures = 0
    /\ oracle = ProfOnlyX
    /\ step_count = 0
    /\ failure_count = 0
    /\ last_actions = <<>>
    /\ trace = <<>>
    /\ allowed = {}
    /\ denied = {}
    /\ pc = "uninitialized"
    /\ action = NoAction
    /\ safety_decision = NoDecision
    /\ success = FALSE
    /\ result = NoneStr
    /\ error = NoneStr
    /\ observation = NoneObs
    /\ last_observation = NoneObs
    /\ last_error = NoneStr
    /\ ret = NoResult
    /\ exit_point = "none"
    /\ runs = 0
    /\ calls = NoCalls
    /\ entry = EntryOf(0, 0, <<>>, <<>>)
    /\ thoughts = <<>>
    /\ llm_output = NoAction
    /\ exec_path = "none"
    /\ is_offline = FALSE
    /\ providers = {}
    /\ current_provider_name = NoneStr
    /\ gemini_available \in BOOLEAN
    /\ chat_history = [n \in ProviderNames |-> <<>>]
    /\ conversation = <<>>
    /\ reply = NoReply
    /\ checking = NoChecking

\* AgentService.initialize -> Brain() -> LLMRouter.__init__ : each
\* registration succeeds or fails (the import or the constructor raises)
Initialize ==
    /\ pc \in {"uninitialized", "serving"}
    /\ IF pc = "serving"
       THEN /\ reply' = [op |-> "initialize", success |-> TRUE,
                         message |-> <<"Already initialized">>]
            /\ UNCHANGED <<providers, current_provider_name, pc>>
       ELSE \E default_provider \in ProviderNames, registered \in SUBSET ProviderNames :
               /\ providers' = registered
               /\ current_provider_name' = DefaultCurrent(default_provider, registered)
               /\ pc' = "serving"
               /\ reply' = [op |-> "initialize", success |-> TRUE,
                            message |-> <<"AURA initialized with ",
                                          Upper(current_provider_name'), " provider">>]
    /\ UNCHANGED <<controller, gemini_available, chat_history, conversation>>

SetProviderAlways(provider_name, registered) == TRUE

\* LLMRouter.set_provider
SetProvider(provider_name, registered) == Lower(provider_name) \in registered

\* AgentService.set_llm_provider -> Brain.set_provider -> LLMRouter.set_provider
SetLlmProvider ==
    /\ pc \in {"uninitialized", "serving"}
    /\ \E provider \in RequestedNames :
          IF pc = "uninitialized"
          THEN /\ reply' = [op |-> "set", requested |-> provider, success |-> FALSE,
                            message |-> <<"Agent not initialized">>,
                            provider |-> NoneStr]
               /\ UNCHANGED current_provider_name
          ELSE LET ok == SetProvider(provider, providers)
                   current == IF ok THEN Lower(provider) ELSE current_provider_name
               IN  /\ current_provider_name' = current
                   /\ reply' =
                        [op |-> "set", requested |-> provider, success |-> ok,
                         message |->
                            IF ok THEN <<"Switched to ", Upper(current), " provider">>
                            ELSE <<"Failed to switch. Unknown provider: ", provider>>,
                         provider |-> current]
    /\ UNCHANGED <<controller, pc, providers, gemini_available, chat_history,
                   conversation>>

\* what provider.health_check() can do: return True, return False, raise
ProbeOutcomes == {"healthy", "unhealthy", "raises"}

\* LLMRouter.get_provider_status : the entry of one provider
StatusEntry(name, probe, current) ==
    IF probe = "raises"
    THEN [healthy |-> FALSE, has_model |-> FALSE, model |-> NoneStr,
          error |-> "probe error", current |-> name = current]
    ELSE [healthy |-> probe = "healthy", has_model |-> TRUE, model |-> ModelOf(name),
          error |-> Absent, current |-> name = current]

\* AgentService.get_llm_status -> LLMRouter.get_provider_status
GetLlmStatus ==
    /\ pc \in {"uninitialized", "serving"}
    /\ IF pc = "uninitialized"
       THEN reply' = [op |-> "status", current_provider |-> NoneStr,
                      providers |-> <<>>, available |-> {}]
       ELSE \E probes \in [providers -> ProbeOutcomes] :
               /\ ("gemini" \in providers /\ ~gemini_available)
                    => probes["gemini"] = "unhealthy"
               /\ reply' =
                    [op |-> "status", current_provider |-> current_provider_name,
                     providers |-> [n \in providers |->
                                      StatusEntry(n, probes[n], current_provider_name)],
                     available |-> providers]
    /\ UNCHANGED <<controller, pc, providers, current_provider_name, gemini_available,
                   chat_history, conversation>>

MaxPrompts == 3

\* the messages a provider sends to its backend for a prompt
ContextOf(history, prompt) == Append(history, <<"user", prompt>>)

\* LLMRouter.generate_response(prompt), as Brain.next_action calls it
GenerateResponse ==
    /\ pc = "serving"
    /\ Len(conversation) < MaxPrompts
    /\ LET prompt == Len(conversation) + 1
           name == current_provider_name
       IN  IF name \notin providers
           THEN /\ reply' = [op |-> "generate", ok |-> FALSE, answered_by |-> NoneStr,
                             context |-> <<>>]
                /\ conversation' = Append(conversation, [prompt |-> prompt, answered |-> FALSE])
                /\ UNCHANGED chat_history
           ELSE IF name = "gemini" /\ ~gemini_available
           THEN /\ reply' = [op |-> "generate", ok |-> FALSE, answered_by |-> name,
                             context |-> <<>>]
                /\ conversation' = Append(conversation, [prompt |-> prompt, answered |-> FALSE])
                /\ UNCHANGED chat_history
           ELSE \E backend_ok \in BOOLEAN :
                   LET context == ContextOf(chat_history[name], prompt)
                       kept == IF name = "ollama" THEN context ELSE chat_history[name]
                   IN  /\ reply' = [op |-> "generate", ok |-> backend_ok,
                                    answered_by |-> name, context |-> context]
                       /\ conversation' =
                            Append(conversation,
                                   [prompt |-> prompt, answered |-> backend_ok])
                       /\ chat_history' =
                            [chat_history EXCEPT ![name] =
                                IF backend_ok
                                THEN Append(context, <<"assistant", prompt>>)
                                ELSE kept]
    /\ UNCHANGED <<controller, pc, providers, current_provider_name, gemini_available>>

RouterNext ==
    \/ Initialize
    \/ SetLlmProvider
    \/ GetLlmStatus
    \/ GenerateResponse

RouterSpec == RouterInit /\ [][RouterNext]_vars

\* ------------------------------------------------------------------------
\* Safety.check called from several threads on one PermissionStore, with
\* allow/deny calls in between: no lock is taken anywhere, so a thread can be
\* preempted between the two membership tests of check
\* ------------------------------------------------------------------------
\* the actions the threads have checked
CacheActions == {ActX, ActRunShellRm}
CacheKeys == {ActionKey(a) : a \in CacheActions}

\* a fresh Safety(): PermissionStore.__init__
CacheInit ==
    /\ max_steps = 0
    /\ max_failures = 0
    /\ oracle = ProfOnlyX
    /\ step_count = 0
    /\ failure_count = 0
    /\ last_actions = <<>>
    /\ trace = <<>>
    /\ allowed = {}
    /\ denied = {}
    /\ pc = "shared"
    /\ action = NoAction
    /\ safety_decision = NoDecision
    /\ success = FALSE
    /\ result = NoneStr
    /\ error = NoneStr
    /\ observation = NoneObs
    /\ last_observation = NoneObs
    /\ last_error = NoneStr
    /\ ret = NoResult
    /\ exit_point = "none"
    /\ runs = 0
    /\ calls = NoCalls
    /\ entry = EntryOf(0, 0, <<>>, <<>>)
    /\ thoughts = <<>>
    /\ llm_output = NoAction
    /\ exec_path = "none"
    /\ is_offline = FALSE
    /\ RouterDefault
    /\ checking = NoChecking

\* what a cache operation leaves alone
outside_cache ==
    <<config, agent_state, trace, pc, action, safety_decision, act_locals,
      observation, carry, ret, exit_point, runs, calls, entry, thoughts,
      llm_output, is_offline, router>>

\* the store's contents become part of what every check in progress overlapped
Overlap(chk, allowedSet, deniedSet) ==
    [t \in Threads |->
        IF chk[t].at = "allow_test"
        THEN [chk[t] EXCEPT !.during = @ \cup {<<allowedSet, deniedSet>>}]
        ELSE chk[t]]

\* Safety.check lines 22-30 : the key and the is_denied test
CheckDenied(t) ==
    /\ pc = "shared"
    /\ checking[t].at = "idle"
    /\ \E a \in CacheActions :
          checking' =
            [checking EXCEPT ![t] =
                IF ActionKey(a) \in denied
                THEN [at |-> "returned", action |-> a,
                      during |-> {<<allowed, denied>>},
                      decision |-> MkDecision("DENY", "HIGH",
                                              "Action explicitly denied by user")]
                ELSE [at |-> "allow_test", action |-> a,
                      during |-> {<<allowed, denied>>},
                      decision |-> NoDecision]]
    /\ UNCHANGED <<outside_cache, permissions>>

\* Safety.check lines 32-61 : the is_allowed test and the classification
CheckAllowed(t) ==
    /\ pc = "shared"
    /\ checking[t].at = "allow_test"
    /\ checking' =
          [checking EXCEPT ![t].at = "returned",
                           ![t].decision = Check(checking[t].action, allowed, {})]
    /\ UNCHANGED <<outside_cache, permissions>>

\* the caller takes the decision; the thread is free for its next check
CheckReturn(t) ==
    /\ pc = "shared"
    /\ checking[t].at = "returned"
    /\ checking' = [checking EXCEPT ![t] = NoCheck]
    /\ UNCHANGED <<outside_cache, permissions>>

\* PermissionStore.allow from any thread: one set.add
CacheAllow ==
    /\ pc = "shared"
    /\ \E k \in CacheKeys :
          /\ k \notin allowed
          /\ allowed' = allowed \cup {k}
          /\ checking' = Overlap(checking, allowed', denied)
    /\ UNCHANGED <<outside_cache, denied>>

\* PermissionStore.deny from any thread: one set.add
CacheDeny ==
    /\ pc = "shared"
    /\ \E k \in CacheKeys :
          /\ k \notin denied
          /\ denied' = denied \cup {k}
          /\ checking' = Overlap(checking, allowed, denied')
    /\ UNCHANGED <<outside_cache, allowed>>

CacheNext ==
    \/ \E t \in Threads : CheckDenied(t)
    \/ \E t \in Threads : CheckAllowed(t)
    \/ \E t \in Threads : CheckReturn(t)
    \/ CacheAllow
    \/ CacheDeny

CacheSpec == CacheInit /\ [][CacheNext]_vars

\* ------------------------------------------------------------------------
\* Safety.check after allow/deny calls, for actions that differ in the order
\* of their parameters, in an omitted or empty params mapping, in a
\* parameter value and in the tool
\* ------------------------------------------------------------------------
ValText == <<"t">>
ValOther == <<"o">>

ActWrite ==
    MkAction("ACTION", "write_file", TRUE,
             <<<<"path", ValPath>>, <<"content", ValText>>>>, Absent)
ActWriteSwapped ==
    MkAction("ACTION", "write_file", TRUE,
             <<<<"content", ValText>>, <<"path", ValPath>>>>, Absent)
ActWriteOther ==
    MkAction("ACTION", "write_file", TRUE,
             <<<<"path", ValPath>>, <<"content", ValOther>>>>, Absent)
ActXNoParams == MkAction("ACTION", "X", FALSE, <<>>, Absent)

KeyActions == {ActWrite, ActWriteSwapped, ActWriteOther, ActX, ActXNoParams}

\* a fresh Safety() and no check made yet
KeyInit ==
    /\ max_steps = 0
    /\ max_failures = 0
    /\ oracle = ProfOnlyX
    /\ step_count = 0
    /\ failure_count = 0
    /\ last_actions = <<>>
    /\ trace = <<>>
    /\ allowed = {}
    /\ denied = {}
    /\ pc = "permissions"
    /\ action = NoAction
    /\ safety_decision = NoDecision
    /\ success = FALSE
    /\ result = NoneStr
    /\ error = NoneStr
    /\ observation = NoneObs
    /\ last_observation = NoneObs
    /\ last_error = NoneStr
    /\ ret = NoResult
    /\ exit_point = "none"
    /\ runs = 0
    /\ calls = NoCalls
    /\ entry = EntryOf(0, 0, <<>>, <<>>)
    /\ thoughts = <<>>
    /\ llm_output = NoAction
    /\ exec_path = "none"
    /\ is_offline = FALSE
    /\ RouterDefault
    /\ checking = NoChecking

outside_permissions ==
    <<config, agent_state, trace, pc, act_locals, observation, carry, ret,
      exit_point, runs, calls, entry, thoughts, llm_output, aux>>

\* permissions.allow(safety._action_key(a))
AllowAction ==
    /\ pc = "permissions"
    /\ \E a \in KeyActions : allowed' = allowed \cup {ActionKey(a)}
    /\ UNCHANGED <<outside_permissions, denied, action, safety_decision>>

\* permissions.deny(safety._action_key(a))
DenyAction ==
    /\ pc = "permissions"
    /\ \E a \in KeyActions : denied' = denied \cup {ActionKey(a)}
    /\ UNCHANGED <<outside_permissions, allowed, action, safety_decision>>

\* Safety.check(a)
CheckAction ==
    /\ pc = "permissions"
    /\ \E a \in KeyActions :
          /\ action' = a
          /\ safety_decision' = Check(a, allowed, denied)
    /\ UNCHANGED <<outside_permissions, permissions>>

KeyNext ==
    \/ AllowAction
    \/ DenyAction
    \/ CheckAction

KeySpec == KeyInit /\ [][KeyNext]_vars

\* ------------------------------------------------------------------------
\* Brain.next_action on what the backend returned (brain.py 118-168)
\* ------------------------------------------------------------------------
\* lengths of texts around the "longer than 20 characters" test
TextLens == {0, 20, 21, 40}
NoMatch == 0 - 1

\* text that json.loads parses to a dict
RawObject(output) == [json |-> "object", output |-> output]

\* text that json.loads parses to a value that is not a dict; holds_type says
\* whether "type" is an element of the array or a substring of the string
RawValue(shape, holds_type) == [json |-> shape, holds_type |-> holds_type]

\* text that json.loads rejects: the length of the message the patterns of
\* _extract_message_fallback match (NoMatch if none does), whether that
\* message is all whitespace, whether the text starts with "{", the length
\* of the stripped text and whether it contains "type" in double quotes
RawText(message_len, blank, brace, text_len, mentions_type) ==
    [json |-> "invalid", message_len |-> message_len, blank |-> blank,
     brace |-> brace, text_len |-> text_len, mentions_type |-> mentions_type]

\* JSON objects without a "type" key: {} and {"message": ...}
EmptyObject == MkAction(Absent, Absent, FALSE, <<>>, Absent)
MessageOnly == MkAction(Absent, Absent, FALSE, <<>>, "oracle answer")

\* the texts json.loads rejects: a matched message is part of a text of
\* length 40, and only a matched message can be blank
RawTexts ==
    {r \in {RawText(m, b, br, t, mt) :
              m \in {NoMatch, 20, 21, 30}, b \in BOOLEAN, br \in BOOLEAN,
              t \in TextLens, mt \in BOOLEAN} :
        /\ r.message_len # NoMatch => r.text_len = 40
        /\ r.blank => r.message_len # NoMatch}

RawOutputs ==
    {RawObject(o) : o \in AllActions \cup {EmptyObject, MessageOnly}}
    \cup {RawValue(shape, h) : shape \in {"array", "string"}, h \in BOOLEAN}
    \cup {RawValue(shape, FALSE) : shape \in {"number", "null", "bool"}}
    \cup RawTexts

FormatTrouble ==
    MkAction("STOP", Absent, FALSE, <<>>,
             "I had trouble formatting my response. Please try again.")

\* _extract_message_fallback : the text extracted, "" after strip() of a
\* blank message, None when nothing qualifies
ExtractMessageFallback(raw) ==
    IF raw.message_len > 20
    THEN IF raw.blank THEN "" ELSE "extracted message"
    ELSE IF ~raw.brace /\ raw.text_len > 20 /\ ~raw.mentions_type
    THEN "whole text"
    ELSE NoneStr

\* Brain.next_action lines 133-168 : what the call does with the raw output
NextAction(raw) ==
    IF raw.json = "invalid"
    THEN LET extracted_message == ExtractMessageFallback(raw)
         IN  IF extracted_message # NoneStr /\ extracted_message # ""
             THEN [outcome |-> "dict",
                   action |-> MkAction("RESPONSE", Absent, FALSE, <<>>, extracted_message)]
             ELSE [outcome |-> "dict", action |-> FormatTrouble]
    ELSE IF raw.json = "object"
    THEN [outcome |-> "dict", action |-> Validate(raw.output)]
    ELSE IF raw.json \in {"number", "null", "bool"}
    THEN [outcome |-> "raises", action |-> NoAction]
    ELSE IF raw.holds_type
    THEN [outcome |-> "not_a_dict", action |-> NoAction]
    ELSE [outcome |-> "dict", action |-> MalformedStop]

\* a Brain whose backend has not answered yet
BrainInit ==
    /\ max_steps = 0
    /\ max_failures = 0
    /\ oracle = ProfOnlyX
    /\ step_count = 0
    /\ failure_count = 0
    /\ last_actions = <<>>
    /\ trace = <<>>
    /\ allowed = {}
    /\ denied = {}
    /\ pc = "brain_idle"
    /\ action = NoAction
    /\ safety_decision = NoDecision
    /\ success = FALSE
    /\ result = NoneStr
    /\ error = NoneStr
    /\ observation = NoneObs
    /\ last_observation = NoneObs
    /\ last_error = NoneStr
    /\ ret = NoResult
    /\ exit_point = "none"
    /\ runs = 0
    /\ calls = NoCalls
    /\ entry = EntryOf(0, 0, <<>>, <<>>)
    /\ thoughts = <<>>
    /\ llm_output = NoAction
    /\ exec_path = "none"
    /\ is_offline = FALSE
    /\ RouterDefault
    /\ checking = NoChecking

outside_brain ==
    <<config, agent_state, trace, permissions, safety_decision, act_locals,
      observation, carry, runs, calls, entry, thoughts, aux>>

\* brain.next_action(...) : the backend answers raw, the call returns a dict,
\* returns a value that is not a dict, or raises
NextActionCall ==
    /\ pc = "brain_idle"
    /\ \E raw \in RawOutputs :
          LET r == NextAction(raw)
          IN  /\ llm_output' = raw
              /\ action' = r.action
              /\ pc' = CASE r.outcome = "dict" -> "returned"
                         [] r.outcome = "not_a_dict" -> "returned_value"
                         [] OTHER -> "next_action_raised"
    /\ ret' = NoResult
    /\ exit_point' = "none"
    /\ UNCHANGED outside_brain

\* run() lines 173-205 with the answer: the exception of next_action leaves
\* run(), action.get raises on a value that is not a dict, STOP and RESPONSE
\* end the run, any other kind goes on to loop detection
RunReceives ==
    /\ pc \in {"returned", "returned_value", "next_action_raised"}
    /\ IF pc # "returned"
       THEN /\ exit_point' = "raised"
            /\ UNCHANGED ret
       ELSE IF action.type = "STOP"
       THEN /\ exit_point' = "stop"
            /\ ret' = [success |-> TRUE, message |-> <<MessageOr(action, "Task completed.")>>]
       ELSE IF action.type = "RESPONSE"
       THEN /\ exit_point' = "response"
            /\ ret' = [success |-> TRUE,
                       message |-> <<MessageOr(action, "I don't have a response.")>>]
       ELSE /\ exit_point' = "continues"
            /\ UNCHANGED ret
    /\ pc' = "brain_idle"
    /\ UNCHANGED <<outside_brain, action, llm_output>>

BrainNext ==
    \/ NextActionCall
    \/ RunReceives

BrainSpec == BrainInit /\ [][BrainNext]_vars

\* ------------------------------------------------------------------------
\* Properties
\* ------------------------------------------------------------------------
ReturnedWith(ok, message) == pc = "done" /\ ret = [success |-> ok, message |-> message]

\* C1: step_count never exceeds max_steps, and whenever run() has returned
\* the 'maximum step limit reached' result step_count equals max_steps.
C1_StepBudget ==
    /\ step_count <= max_steps
    /\ ReturnedWith(FALSE, MsgMaxSteps) => step_count = max_steps

C1_Witness ==
    /\ ReturnedWith(FALSE, MsgMaxSteps)
    /\ runs = 1
    /\ max_steps >= 2
    /\ calls.dispatch = max_steps

\* a step in which executor.execute was called
Dispatched == calls'.dispatch = calls.dispatch + 1

\* the last n steps of the trace all have success = false
TrailingFailures(tr, n) ==
    /\ n <= Len(tr)
    /\ \A i \in (Len(tr) - n + 1)..Len(tr) : ~tr[i].success

\* C2: each failed dispatch adds exactly one to failure_count and each
\* successful one resets it to 0 (nothing else changes it), so a run that
\* returned 'too many consecutive failures' has a trace whose last
\* max_failures steps all failed: a success followed by fewer failures does
\* not end the run that way.
C2_ConsecutiveFailures ==
    /\ [](ReturnedWith(FALSE, MsgFailures) => TrailingFailures(trace, max_failures))
    /\ [][Dispatched => failure_count' = (IF success' THEN 0 ELSE failure_count + 1)]_vars
    /\ [][~Dispatched => failure_count' = failure_count]_vars

C2_Witness ==
    /\ ReturnedWith(FALSE, MsgFailures)
    /\ max_failures = 2
    /\ Len(trace) = 3
    /\ trace[1].success
    /\ runs = 1

\* the ACTION iterations of the current run before the latest oracle call
EarlierActions ==
    {i \in 1..(Len(thoughts) - 1) : thoughts[i].type = "ACTION"}

\* the action just proposed has the tool and parameters of the immediately
\* preceding ACTION iteration of this run
RepeatsPreceding ==
    /\ action.type = "ACTION"
    /\ EarlierActions # {}
    /\ LET prev == thoughts[CHOOSE i \in EarlierActions :
                                \A j \in EarlierActions : j <= i]
       IN  /\ ActionTool(prev) = ActionTool(action)
           /\ DictEq(ActionParams(prev), ActionParams(action))

\* the run is over and the oracle returned ActX at every call of it
AlwaysXRunOver ==
    /\ pc = "done"
    /\ \A i \in 1..Len(thoughts) : thoughts[i] = ActX

\* C3 as stated: an oracle that always returns ACTION X with empty
\* parameters (and was asked at least once) ends the run after exactly 2
\* oracle calls and 1 dispatch with trace length 1.
C3_Original ==
    (pc = "done" /\ oracle = ProfOnlyX /\ Len(thoughts) >= 1)
        => /\ calls.think = 2
           /\ calls.dispatch = 1
           /\ Len(trace) = 1
           /\ ret.success

\* the budget and history a run needs at entry for the scenario of C3
ScenarioCEntry ==
    /\ entry.step_count + 2 <= max_steps
    /\ entry.failure_count + 2 <= max_failures
    /\ \/ entry.last_actions = <<>>
       \/ ~SigEq(entry.last_actions[Len(entry.last_actions)], Signature(ActX))
    /\ ActionKey(ActX) \notin denied

\* C3 (amended): an ACTION with the tool and parameters of the immediately
\* preceding ACTION iteration makes run() return success=true with the
\* tool-tailored message, without dispatch and without a new trace step; an
\* oracle that always returns ACTION X with empty parameters ends a run that
\* starts with two steps and two failures of budget left, X not denied and X
\* not the most recently recorded signature, after exactly 2 oracle calls and
\* 1 dispatch, having added exactly one trace step.
C3_LoopDetection ==
    /\ [][(pc = "loop" /\ pc' # "loop" /\ RepeatsPreceding)
            => /\ pc' = "done"
               /\ ret' = [success |-> TRUE, message |-> SmartMessage(action)]
               /\ trace' = trace
               /\ calls' = calls]_vars
    /\ []((AlwaysXRunOver /\ ScenarioCEntry)
            => /\ calls.think = 2
               /\ calls.dispatch = 1
               /\ Len(trace) = entry.trace_len + 1
               /\ ret = [success |-> TRUE, message |-> <<"Task completed successfully.">>])

C3_Witness ==
    /\ AlwaysXRunOver
    /\ ScenarioCEntry
    /\ exit_point = "loop"
    /\ calls.think = 2
    /\ calls.dispatch = 1
    /\ Len(trace) = 1
    /\ ~trace[1].success

\* C4 as stated: every run() starts from step_count = 0, failure_count = 0,
\* an empty loop-detection history and an empty trace, also the second run
\* on the same orchestrator.
C4_FreshRunState ==
    runs >= 1 => entry = EntryOf(0, 0, <<>>, <<>>)

\* C5: every started run reaches a termination point and returns, after at
\* most max_steps completed iterations, whatever the oracle returns.
C5_RunTerminates ==
    /\ [](calls.store <= max_steps)
    /\ (pc \notin {"idle", "done"}) ~> (pc = "done")

\* a run the oracle never stopped, never repeated in and whose actions all
\* succeeded, ended by the step budget
C5_Witness ==
    /\ ReturnedWith(FALSE, MsgMaxSteps)
    /\ runs = 1
    /\ max_steps >= 3
    /\ calls.store = max_steps
    /\ \A i \in 1..Len(trace) : trace[i].success
    /\ \A i \in 1..Len(thoughts) : thoughts[i].type = "ACTION"

\* C6: the oracle is never invoked with step_count >= max_steps or
\* failure_count >= max_failures, and a run makes at most max_steps oracle
\* calls.
C6_NoThinkPastBudget ==
    /\ pc = "think" => (step_count < max_steps /\ failure_count < max_failures)
    /\ calls.think <= max_steps
    /\ calls.think <= calls.store + 1

C6_Witness ==
    /\ pc = "kind"
    /\ max_steps >= 2
    /\ calls.think = max_steps
    /\ failure_count = max_failures - 1
    /\ max_failures >= 2

\* a step in which safety.check was called
Checked == calls'.check = calls.check + 1

\* C7: Tool Dispatch is invoked only for an action whose safety decision was
\* ALLOW or CONFIRM; a DENY ends the run with success=false and a message
\* naming the reason, with no dispatch, observation or trace step; CONFIRM
\* proceeds to execution like ALLOW.
C7_SafetyGate ==
    /\ [][Dispatched
            => /\ safety_decision.decision \in {"ALLOW", "CONFIRM"}
               /\ calls.check = calls.dispatch + 1
               /\ action' = action]_vars
    /\ [][(Checked /\ safety_decision'.decision = "DENY")
            => /\ pc' = "done"
               /\ ret' = [success |-> FALSE,
                          message |-> <<"Blocked by safety system: ",
                                        safety_decision'.reason>>]
               /\ trace' = trace
               /\ calls'.dispatch = calls.dispatch
               /\ calls'.observe = calls.observe
               /\ calls'.store = calls.store]_vars
    /\ [][(Checked /\ safety_decision'.decision \in {"ALLOW", "CONFIRM"})
            => pc' = "act"]_vars

\* a CONFIRM action was executed, then the next action was denied
C7_Witness ==
    /\ ReturnedWith(FALSE, <<"Blocked by safety system: ", "High-risk action blocked">>)
    /\ runs = 1
    /\ Len(trace) = 1
    /\ calls.dispatch = 1
    /\ Check(trace[1].action, {}, {}).decision = "CONFIRM"
    /\ allowed = {}
    /\ denied = {}

\* C8 as stated: when the first action of a run is an ACTION that Safety
\* classifies HIGH and whose signature is in neither cache, run() returns
\* success=false with the denial reason, the trace has length 0 and
\* dispatch, observation and store_step are never invoked.
C8_FirstActionHigh ==
    (/\ pc = "done"
     /\ Len(thoughts) = 1
     /\ thoughts[1].type = "ACTION"
     /\ Classify(thoughts[1]) = "HIGH"
     /\ ActionKey(thoughts[1]) \notin allowed \cup denied)
        => /\ ret = [success |-> FALSE,
                     message |-> <<"Blocked by safety system: ",
                                   "High-risk action blocked">>]
           /\ Len(trace) = 0
           /\ calls.dispatch = 0
           /\ calls.observe = 0
           /\ calls.store = 0

\* C9 as stated: with an empty permission cache, a shell-execution ACTION
\* whose command contains rm is never dispatched to the shell handler.
C9_ShellRmNeverDispatched ==
    ~(/\ exec_path = "SHELL_EXECUTE"
      /\ pc = "observe"
      /\ ContainsRm(ParamGet(ActionParams(action), "command", <<>>))
      /\ allowed = {}
      /\ denied = {})

\* C10: a signature in the deny cache stays there, and every check() for it
\* returns DENY, whatever its classification and whether or not it is also
\* in the allow cache.
C10_DenyWins ==
    /\ [][denied \subseteq denied']_vars
    /\ [](\A a \in AllActions :
            ActionKey(a) \in denied => Check(a, allowed, denied).decision = "DENY")
    /\ [][(Checked /\ ActionKey(action) \in denied)
            => /\ safety_decision'.decision = "DENY"
               /\ pc' = "done"
               /\ ~ret'.success]_vars

\* a LOW action that is in both caches was checked and denied
C10_Witness ==
    /\ ReturnedWith(FALSE, <<"Blocked by safety system: ",
                             "Action explicitly denied by user">>)
    /\ Classify(action) = "LOW"
    /\ ActionKey(action) \in allowed
    /\ ActionKey(action) \in denied
    /\ calls.dispatch >= 1

\* ------------------------------------------------------------------------
\* C11 as stated: a signature in the allow cache is answered ALLOW whatever
\* allow/deny operations followed
C11_Original ==
    \A a \in oracle :
        ActionKey(a) \in allowed => Check(a, allowed, denied).decision = "ALLOW"

\* C11 (amended): a signature in the allow cache and not in the deny cache is
\* answered ALLOW with level LOW whatever the rule table says of it (HIGH
\* included), in every cache state and at every check() the run makes
C11_AllowCacheOverrides ==
    /\ [](\A a \in oracle :
            (ActionKey(a) \in allowed /\ ActionKey(a) \notin denied)
            => Check(a, allowed, denied)
                 = MkDecision("ALLOW", "LOW", "Previously approved action"))
    /\ [][(Checked /\ ActionKey(action) \in allowed
                   /\ ActionKey(action) \notin denied)
           => (safety_decision'.decision = "ALLOW" /\ pc' = "act")]_vars

\* a HIGH action went through check() on the strength of the allow cache
C11_Witness ==
    /\ pc = "act"
    /\ Classify(action) = "HIGH"
    /\ ActionKey(action) \in allowed
    /\ safety_decision = MkDecision("ALLOW", "LOW", "Previously approved action")

\* ------------------------------------------------------------------------
\* the tools the rule table names
RuleTableTools == {"run_shell", "open_app", "open_browser", "write_file"}

\* the evaluation order C12 gives, for a signature k and a rule-table level L
ReferenceDecision(k, L, allowedSet, deniedSet) ==
    IF k \in deniedSet THEN <<"DENY", "HIGH">>
    ELSE IF k \in allowedSet THEN <<"ALLOW", "LOW">>
    ELSE CASE L = "LOW" -> <<"ALLOW", L>>
           [] L = "MEDIUM" -> <<"CONFIRM", L>>
           [] L = "HIGH" -> <<"DENY", L>>

\* C12: in every cache state and for every action, check() gives the decision
\* and level of the reference order (deny cache, allow cache, rule table with
\* LOW -> ALLOW, MEDIUM -> CONFIRM, HIGH -> DENY), a tool the rule table does
\* not name is MEDIUM, and the check() of a run returns exactly that
C12_ReferenceEvaluation ==
    /\ [](\A a \in oracle :
            LET d == Check(a, allowed, denied) IN
            /\ Classify(a) \in {"LOW", "MEDIUM", "HIGH"}
            /\ <<d.decision, d.level>>
                 = ReferenceDecision(ActionKey(a), Classify(a), allowed, denied)
            /\ (ActionToolOrEmpty(a) \notin RuleTableTools => Classify(a) = "MEDIUM"))
    /\ [][Checked
           => <<safety_decision'.decision, safety_decision'.level>>
                = ReferenceDecision(ActionKey(action), Classify(action),
                                    allowed, denied)]_vars

\* check() answered CONFIRM, MEDIUM for a tool the rule table does not name
C12_Witness ==
    /\ pc = "act"
    /\ ActionToolOrEmpty(action) \notin RuleTableTools
    /\ ActionKey(action) \notin allowed \cup denied
    /\ safety_decision = MkDecision("CONFIRM", "MEDIUM", "Requires user confirmation")

\* ------------------------------------------------------------------------
\* a step of run(): it moves the position of run() or starts a run
RunMoves == pc' # pc \/ runs' # runs

\* C13: check() leaves the allow and the deny set as they were, no step of
\* run() changes them, and a change of either set is the addition of one
\* signature by allow() or deny(), which leaves run() where it was
C13_CheckLeavesCache ==
    [][/\ Checked => (allowed' = allowed /\ denied' = denied)
       /\ RunMoves => (allowed' = allowed /\ denied' = denied)
       /\ (allowed' # allowed \/ denied' # denied)
          => /\ \/ (\E k \in PermKeys : allowed' = allowed \cup {k}) /\ denied' = denied
                \/ (\E k \in PermKeys : denied' = denied \cup {k}) /\ allowed' = allowed
             /\ UNCHANGED <<pc, calls, agent_state, trace, ret, safety_decision>>]_vars

\* check() answered ALLOW from the rule table and both caches are still empty
C13_Witness ==
    /\ pc = "act"
    /\ calls.check = 1
    /\ safety_decision = MkDecision("ALLOW", "LOW", "Low-risk action")
    /\ allowed = {}
    /\ denied = {}

\* ------------------------------------------------------------------------
\* the run is over, the oracle proposed only ACTIONs in it, none of them was
\* denied and every dispatch of the run failed
AllDispatchFailedRunOver ==
    /\ pc = "done"
    /\ \A i \in 1..Len(thoughts) : thoughts[i].type = "ACTION"
    /\ exit_point # "safety"
    /\ \A i \in (entry.trace_len + 1)..Len(trace) : ~trace[i].success

\* C14 as stated: with max_failures <= max_steps such a run (the oracle was
\* asked at least once) ends with the 'too many consecutive failures' result
\* after exactly max_failures failed iterations and a trace of max_failures
\* steps; stated for the first run of an orchestrator
C14_Original ==
    (/\ AllDispatchFailedRunOver
     /\ runs = 1
     /\ Len(thoughts) >= 1
     /\ max_failures <= max_steps)
        => /\ ret = [success |-> FALSE, message |-> MsgFailures]
           /\ calls.dispatch = max_failures
           /\ Len(trace) = max_failures

\* no ACTION of the run has the tool and parameters of the signature recorded
\* just before it
NoImmediateRepeat ==
    /\ \A i \in 2..Len(thoughts) :
          ~SigEq(Signature(thoughts[i]), Signature(thoughts[i - 1]))
    /\ (Len(thoughts) >= 1 /\ entry.last_actions # <<>>)
         => ~SigEq(Signature(thoughts[1]),
                   entry.last_actions[Len(entry.last_actions)])

\* the failures a run still has to collect when it starts
FailuresLeft == max_failures - entry.failure_count

\* C14 (amended): every dispatch fails, no action is denied and no ACTION
\* repeats the signature recorded just before it; a run entered with
\* step_count s and failure_count f such that s + (max_failures - f) <
\* max_steps then ends with success=false and the 'too many consecutive
\* failures' message after exactly max_failures - f failed iterations, having
\* added exactly that many (failed) trace steps
C14_AllDispatchFail ==
    (/\ AllDispatchFailedRunOver
     /\ NoImmediateRepeat
     /\ entry.step_count + FailuresLeft < max_steps)
        => /\ ret = [success |-> FALSE, message |-> MsgFailures]
           /\ calls.dispatch = FailuresLeft
           /\ calls.think = FailuresLeft
           /\ Len(trace) = entry.trace_len + FailuresLeft
           /\ TrailingFailures(trace, FailuresLeft)

\* a first run with max_failures = 2 < max_steps: two different ACTIONs
\* failed and the run ended with a trace of exactly two steps
C14_Witness ==
    /\ AllDispatchFailedRunOver
    /\ NoImmediateRepeat
    /\ runs = 1
    /\ max_failures = 2
    /\ max_steps > 2
    /\ calls.dispatch = 2
    /\ Len(trace) = 2
    /\ ret = [success |-> FALSE, message |-> MsgFailures]

\* ------------------------------------------------------------------------
\* the run is over and its only oracle call returned a RESPONSE
ResponseFirstRunOver ==
    /\ pc = "done"
    /\ Len(thoughts) = 1
    /\ thoughts[1].type = "RESPONSE"
    /\ thoughts[1].message # Absent

\* C15 as stated: a RESPONSE on the first oracle call of the first run gives
\* success=true, the oracle's text and a trace of length 1
C15_Original ==
    (ResponseFirstRunOver /\ runs = 1)
        => /\ ret = [success |-> TRUE, message |-> <<thoughts[1].message>>]
           /\ Len(trace) = 1

\* C15 (amended): a RESPONSE on the first oracle call of a run gives
\* success=true and the oracle's text after one oracle call, without safety
\* check, dispatch, observation or store_step and without a new trace step:
\* the trace is as long as when the run started, 0 on a fresh orchestrator
C15_ResponseFirst ==
    ResponseFirstRunOver
        => /\ ret = [success |-> TRUE, message |-> <<thoughts[1].message>>]
           /\ calls = [NoCalls EXCEPT !.retrieve = 1, !.think = 1]
           /\ Len(trace) = entry.trace_len
           /\ (runs = 1 => trace = <<>>)

C15_Witness ==
    /\ ResponseFirstRunOver
    /\ runs = 1
    /\ ret = [success |-> TRUE, message |-> <<"oracle answer">>]
    /\ trace = <<>>

\* ------------------------------------------------------------------------
\* the step of run() that handles a STOP returned by the oracle
StopIteration == pc = "kind" /\ action.type = "STOP" /\ pc' # pc

\* what C16 says of every STOP: success=true with the oracle's message or
\* the fixed fallback, no trace step, no safety check, dispatch, observation
\* or store_step
StopEndsRun ==
    [][StopIteration
        => /\ pc' = "done"
           /\ ret' = [success |-> TRUE,
                      message |-> <<IF action.message = Absent
                                    THEN "Task completed." ELSE action.message>>]
           /\ trace' = trace
           /\ calls' = calls]_vars

\* C16: every STOP ends the run as StopEndsRun says, and when STOP is the
\* first action of a run the trace of the result has length 0
C16_Stop ==
    /\ StopEndsRun
    /\ []((pc = "done" /\ Len(thoughts) = 1 /\ thoughts[1].type = "STOP")
            => Len(trace) = 0)

\* ------------------------------------------------------------------------
MsgMalformed == <<"Stopped due to malformed action (missing 'type').">>

\* the latest oracle call of the run got a model output without "type"
OutputLacksType == Len(thoughts) >= 1 /\ llm_output.type = Absent

\* C17 as stated: such a run ends at that step with success=false and the
\* fixed malformed-action message
C17_Original ==
    (pc = "done" /\ OutputLacksType)
        => ret = [success |-> FALSE, message |-> MsgMalformed]

\* C17 (amended): a model output without "type" ends the run at that step,
\* without safety check, dispatch, observation, trace step or store_step,
\* through the STOP branch: success=true with the fixed malformed-action
\* message
C17_MalformedStops ==
    /\ [](OutputLacksType
            => /\ pc \in {"kind", "done"}
               /\ action = MalformedStop
               /\ (pc = "done"
                    => /\ ret = [success |-> TRUE, message |-> MsgMalformed]
                       /\ exit_point = "stop"))
    /\ [][(OutputLacksType /\ pc = "kind" /\ pc' # pc)
           => /\ pc' = "done"
              /\ calls' = calls
              /\ trace' = trace
              /\ agent_state' = agent_state]_vars

\* after one dispatched iteration the model answered without "type" and the
\* run returned
C17_Witness ==
    /\ pc = "done"
    /\ OutputLacksType
    /\ Len(thoughts) = 2
    /\ calls.dispatch = 1
    /\ ret = [success |-> TRUE, message |-> MsgMalformed]

\* ------------------------------------------------------------------------
\* the return statements of run() that give success=false
FailureExits == {"max_steps", "max_failures", "safety"}

\* the other return statements: STOP (a malformed output included), RESPONSE
\* and loop detection
SuccessExits == {"stop", "response", "loop"}

\* C18: a run returns one AgentResult, at the step that ends it and not
\* before, and nothing follows it but a new run; the result has
\* success=false exactly when the run left by the step budget, the failure
\* budget or a safety DENY, and success=true when it left by STOP, RESPONSE,
\* a malformed output or loop detection
C18_SuccessByExit ==
    /\ [](pc # "done" => ret = NoResult /\ exit_point = "none")
    /\ [](pc = "done"
            => /\ exit_point \in FailureExits \cup SuccessExits
               /\ ret.success <=> exit_point \in SuccessExits
               /\ exit_point = "max_steps" => ret.message = MsgMaxSteps
               /\ exit_point = "max_failures" => ret.message = MsgFailures
               /\ exit_point = "safety"
                    => ret.message[1] = "Blocked by safety system: "
               /\ OutputLacksType => ret.success
               /\ (Len(thoughts) >= 1
                    /\ thoughts[Len(thoughts)].type \in {"STOP", "RESPONSE"})
                    => ret.success)
    /\ [][ret' # ret
           => \/ pc # "done" /\ pc' = "done"
              \/ pc = "done" /\ runs' = runs + 1 /\ ret' = NoResult]_vars
    /\ [][(pc = "done" /\ pc' # pc) => runs' = runs + 1]_vars

\* a run that loop detection ended returned success=true
C18_Witness ==
    /\ pc = "done"
    /\ exit_point = "loop"
    /\ calls.think = calls.check + 1
    /\ ret.success

\* ------------------------------------------------------------------------
\* the steps the trace had before a transition are its first steps after it
TracePrefixKept ==
    /\ Len(trace') >= Len(trace)
    /\ \A k \in 1..Len(trace) : trace'[k] = trace[k]

\* C19: at every budget check the trace is as long as step_count; the k-th
\* step has step_id k-1, success iff its error is null, and one step stands
\* for each dispatched iteration; a transition changes the trace only by
\* appending one step that carries the action dispatched and the outcome of
\* that dispatch, and never alters, removes or reorders a step
C19_TraceAppendOnly ==
    /\ [](pc = "check" => Len(trace) = step_count)
    /\ [](\A k \in 1..Len(trace) :
            /\ trace[k].step_id = k - 1
            /\ trace[k].success <=> trace[k].error = NoneStr)
    /\ [](pc \notin {"idle", "observe", "trace"}
            => Len(trace) = entry.trace_len + calls.dispatch)
    /\ [][Dispatched => (success' <=> error' = NoneStr)]_vars
    /\ [][TracePrefixKept]_vars
    /\ [][trace' # trace
           => /\ pc = "trace"
              /\ Len(trace') = Len(trace) + 1
              /\ trace'[Len(trace')].action = action
              /\ trace'[Len(trace')].success = success
              /\ trace'[Len(trace')].error = error
              /\ trace'[Len(trace')].observation = observation]_vars

\* a budget check finds two steps: the first dispatch returned, the second
\* raised
C19_Witness ==
    /\ pc = "check"
    /\ step_count = 2
    /\ Len(trace) = 2
    /\ trace[1].success /\ trace[1].error = NoneStr
    /\ ~trace[2].success /\ trace[2].error = "tool error"
    /\ trace[2].step_id = 1

\* ------------------------------------------------------------------------
\* run() is about to call the oracle with last_observation and last_error
OracleCallDue == pc = "think"

\* C20: a failed dispatch does not end the run: the exception becomes the
\* string error, the iteration goes on to observe, trace (a step with
\* success=false and that error), store and a new budget check; the next
\* oracle call gets the error and the observation of that step, gets a null
\* last_error after a successful iteration, and the first oracle call of a
\* run gets null for both
C20_FailureFedBack ==
    /\ [][(Dispatched /\ ~success')
           => (pc' = "observe" /\ error' # NoneStr /\ result' = NoneStr)]_vars
    /\ [][(pc \in {"observe", "trace", "store", "advance"} /\ pc' # pc)
           => pc' \in {"trace", "store", "advance", "check", "raised"}]_vars
    /\ [](pc \in {"store", "advance"}
            => /\ trace[Len(trace)].success = success
               /\ trace[Len(trace)].error = error
               /\ trace[Len(trace)].observation = Observe(result, error))
    /\ []((OracleCallDue /\ calls.think = 0)
            => (last_observation = NoneObs /\ last_error = NoneStr))
    /\ []((OracleCallDue /\ calls.think >= 1)
            => /\ Len(trace) > entry.trace_len
               /\ last_error = trace[Len(trace)].error
               /\ last_observation = trace[Len(trace)].observation
               /\ trace[Len(trace)].success <=> last_error = NoneStr)

\* the second oracle call of a run is due after a failed first iteration
C20_Witness ==
    /\ OracleCallDue
    /\ calls.think = 1
    /\ ~trace[Len(trace)].success
    /\ last_error = "tool error"
    /\ last_observation = <<"Action failed with error: ", "tool error">>

\* ------------------------------------------------------------------------
\* C21: a run in which a port call failed after a step was completed has
\* produced an AgentResult with success=false and a message (the result
\* carries self.trace, which holds that step)
C21_RunNeverRaises ==
    (pc = "raised" /\ Len(trace) > entry.trace_len)
        => (ret # NoResult /\ ~ret.success /\ ret.message # <<>>)

\* ------------------------------------------------------------------------
\* execute() has been called and has returned or raised
Executed == exec_path # "none"

\* tool.run(**params) was called: a handler was entered, or the call was
\* rejected by the handler's signature
HandlerCalled == exec_path \in RegisteredTools \cup {"bad_arguments"}

\* execute() raised
ExecuteFailed == ~success /\ error # NoneStr /\ result = NoneStr

\* execute() returned a value that some handler outcome gives
HandlerResultReturned ==
    /\ success
    /\ error = NoneStr
    /\ \E o \in ToolOutcomes : o.ok /\ o.val = result

\* the offline short-circuit of execute() applies to the action
ShortCircuited ==
    action.type = "ACTION" /\ is_offline /\ ActionTool(action) \in ONLINE_ONLY_TOOLS

\* C22 as stated: execute() fails without calling a handler for a kind other
\* than ACTION and for an unregistered tool, and otherwise calls the handler
\* and returns its result or reports its failure; stated for the tools whose
\* name is not both in ONLINE_ONLY_TOOLS and unregistered
C22_Original ==
    (Executed /\ ActionTool(action) \notin ONLINE_ONLY_TOOLS \ RegisteredTools)
        => IF action.type # "ACTION" \/ ActionTool(action) \notin RegisteredTools
           THEN ExecuteFailed /\ ~HandlerCalled
           ELSE HandlerCalled /\ (HandlerResultReturned \/ ExecuteFailed)

\* C22 (amended): execute() fails without calling a handler for a kind other
\* than ACTION; else, offline and for a tool named in ONLINE_ONLY_TOOLS
\* (registered or not), it returns the degraded-mode message without calling
\* a handler; else it fails without calling a handler for an unregistered
\* tool; else it calls the handler once with the action's parameters and
\* returns its result or reports its failure
C22_Execute ==
    Executed
        => IF action.type # "ACTION"
           THEN /\ ExecuteFailed /\ ~HandlerCalled
                /\ error = "Executor received non-ACTION type"
           ELSE IF ShortCircuited
           THEN /\ success /\ error = NoneStr /\ ~HandlerCalled
                /\ result = "offline mode message"
           ELSE IF ActionTool(action) \notin RegisteredTools
           THEN /\ ExecuteFailed /\ ~HandlerCalled
                /\ error = "Tool not found"
           ELSE /\ HandlerCalled
                /\ HandlerResultReturned \/ ExecuteFailed
                /\ exec_path = "bad_arguments"
                     <=> ParamKeys(ActionParams(action))
                           \notin {RequiredParams(ActionTool(action)),
                                   RequiredParams(ActionTool(action))
                                     \cup OptionalParams(ActionTool(action))}

\* the handler of READ_FILE was called and its result came back
C22_Witness ==
    /\ Executed
    /\ action = ActReadFile
    /\ exec_path = "READ_FILE"
    /\ success
    /\ result = "tool output"

\* C23: offline, an action for a tool named in ONLINE_ONLY_TOOLS gets the
\* degraded-mode message, no handler is called and nothing is raised; online
\* the same action is dispatched to its registered handler; an action for a
\* registered tool not named there is dispatched in both modes
C23_OfflineShortCircuit ==
    (Executed /\ action.type = "ACTION")
        => /\ (is_offline /\ ActionTool(action) \in ONLINE_ONLY_TOOLS)
                => (success /\ ~HandlerCalled /\ result = "offline mode message")
           /\ (~is_offline /\ ActionTool(action) \in ONLINE_ONLY_TOOLS)
                => (HandlerCalled /\ error # "Tool not found")
           /\ (ActionTool(action) \in RegisteredTools \ ONLINE_ONLY_TOOLS)
                => HandlerCalled

\* ------------------------------------------------------------------------
\* number of characters of an observation (the parts of the f-string)
RECURSIVE ObsLen(_)
ObsLen(obs) == IF obs = <<>> THEN 0 ELSE Len(Head(obs)) + ObsLen(Tail(obs))

\* the longest observation of a result: prefix, 500 characters and marker
ObservationBound ==
    Len("Action completed. Result: ") + TruncateAt + Len("... (truncated)")

\* observe() has been called on the outcome of the last execute()
Observed == Executed /\ pc = "port_idle"

\* a result longer than 500 characters is cut to its first 500 characters
\* followed by the marker
LongResultTruncated ==
    (Observed /\ success /\ result # NoneStr /\ Len(result) > TruncateAt)
        => observation = <<"Action completed. Result: ",
                           SubSeq(result, 1, TruncateAt) \o "... (truncated)">>

\* C24: observe() returns non-empty text of bounded length for every result
\* and every error, a result longer than 500 characters being cut to its
\* first 500 characters and the marker
C24_ObservationBounded ==
    Observed
        => /\ ObsLen(observation) >= 1
           /\ ObsLen(observation) <= ObservationBound
           /\ LongResultTruncated

\* ------------------------------------------------------------------------
\* the last call was set_llm_provider on an initialized service
SetReplied == pc = "serving" /\ reply.op = "set"

\* C25: set_active(name) succeeds exactly for the name of a registered
\* backend (names are lower-cased first); a failure leaves the active backend
\* as it was and the reply carries the requested name and the backend that
\* stayed active; after a success the named backend is the active one
C25_SetActive ==
    /\ [](SetReplied
            => /\ reply.success <=> Lower(reply.requested) \in providers
               /\ reply.provider = current_provider_name
               /\ reply.success
                    => /\ current_provider_name = Lower(reply.requested)
                       /\ reply.message
                            = <<"Switched to ", Upper(Lower(reply.requested)), " provider">>
               /\ ~reply.success
                    => reply.message
                         = <<"Failed to switch. Unknown provider: ", reply.requested>>)
    /\ [][(pc = "serving" /\ reply'.op = "set" /\ ~reply'.success)
           => current_provider_name' = current_provider_name]_vars

\* after a swap to gemini an unknown name was refused and gemini stayed active
C25_Witness ==
    /\ SetReplied
    /\ reply.requested = "openai"
    /\ ~reply.success
    /\ reply.provider = "gemini"
    /\ current_provider_name = "gemini"
    /\ providers = ProviderNames

\* C26: set_active for a backend that is registered but unavailable (Gemini
\* without an API key) returns false and leaves the active backend as it was
C26_UnavailableRefused ==
    [][(pc = "serving" /\ reply'.op = "set" /\ reply' # reply
        /\ Lower(reply'.requested) = "gemini"
        /\ current_provider_name = "ollama"
        /\ "gemini" \in providers /\ ~gemini_available)
       => (~reply'.success /\ current_provider_name' = current_provider_name)]_vars

\* the prompts the conversation had answered before its latest request
AnsweredBefore ==
    {conversation[i].prompt :
        i \in {j \in 1..(Len(conversation) - 1) : conversation[j].answered}}

\* the prompts whose answers are part of the messages sent to a backend
ExchangesIn(context) ==
    {context[i][2] : i \in {j \in 1..Len(context) : context[j][1] = "assistant"}}

\* C27: a request answered by the active backend is sent with every exchange
\* the conversation accumulated before it, whichever backend answered them
C27_ConversationPreserved ==
    (pc = "serving" /\ reply.op = "generate" /\ reply.ok)
        => AnsweredBefore \subseteq ExchangesIn(reply.context)

\* the last call was get_llm_status on an initialized service
StatusReplied == pc = "serving" /\ reply.op = "status"

\* C28: status() has an entry for every registered backend with its health,
\* its model and whether it is active, marks exactly the active backend as
\* active, and leaves the active backend unchanged, whatever the probes do
C28_Status ==
    /\ [](StatusReplied
            => /\ DOMAIN reply.providers = providers
               /\ \A n \in providers :
                     /\ reply.providers[n].healthy \in BOOLEAN
                     /\ reply.providers[n].has_model
                     /\ reply.providers[n].model = ModelOf(n)
                     /\ reply.providers[n].current <=> n = current_provider_name
               /\ Cardinality({n \in providers : reply.providers[n].current}) = 1
               /\ reply.current_provider = current_provider_name)
    /\ [][(pc = "serving" /\ reply'.op = "status")
           => current_provider_name' = current_provider_name]_vars

\* C29: every Safety.check that returned gives the decision that some
\* contents of the permission store, as they were at some moment during the
\* call, determine; and no allow/deny insert is ever lost
C29_CheckSeesOneCacheState ==
    /\ [](\A t \in Threads :
            checking[t].at = "returned"
              => \E s \in checking[t].during :
                    checking[t].decision = Check(checking[t].action, s[1], s[2]))
    /\ [][allowed \subseteq allowed' /\ denied \subseteq denied']_vars

\* C30: a first run that ends through loop detection reports success only
\* when the last trace step, the earlier occurrence of the action, succeeded
C30_RepeatAfterSuccess ==
    (pc = "done" /\ exit_point = "loop" /\ runs = 1)
        => /\ ret.success
           /\ Len(trace) >= 1
           /\ trace[Len(trace)].success

\* C31: when a run ends through loop detection, the earlier occurrence of the
\* repeated action was dispatched: the last trace step is a step of an action
\* with the same signature
C31_RepeatWasDispatched ==
    (pc = "done" /\ exit_point = "loop")
        => /\ Len(trace) >= 1
           /\ SigEq(Signature(trace[Len(trace)].action), Signature(action))

\* the tool and the parameter mapping an allow/deny was recorded for
KeySignature(key) == [tool |-> key[1], params |-> key[2].items]

RecordedFor(keys, a) == \E k \in keys : SigEq(KeySignature(k), Signature(a))

\* C32: a recorded deny (or, with no deny, a recorded allow) applies to a
\* checked action exactly when it was recorded for an action with the same
\* tool and an equal parameter mapping, whatever the order of the parameters
\* and whether an empty mapping was given or omitted
C32_CacheKeyIsSignature ==
    (pc = "permissions" /\ safety_decision # NoDecision)
        => /\ (safety_decision.reason = "Action explicitly denied by user")
                <=> RecordedFor(denied, action)
           /\ (safety_decision.reason = "Previously approved action")
                <=> (~RecordedFor(denied, action) /\ RecordedFor(allowed, action))

\* the buffer after a signature is appended and the oldest entry beyond the
\* depth of 3 is dropped
Recorded(history, a) ==
    LET appended == Append(history, Signature(a))
    IN  IF Len(appended) > 3 THEN Tail(appended) ELSE appended

\* C33: every ACTION iteration of a first run records the action's signature in the history
\* buffer, also when it matched the most recent entry, and the buffer never
\* holds more than 3 signatures
C33_AlwaysRecorded ==
    /\ [][(runs = 1 /\ pc = "loop" /\ pc' # "loop" /\ action.type = "ACTION")
            => last_actions' = Recorded(last_actions, action)]_vars
    /\ [](Len(last_actions) <= 3)

\* the oracle's answers of a run are ACTIONs that alternate between two
\* distinct signatures
Alternates(seq) ==
    /\ \A i \in 1..Len(seq) : seq[i].type = "ACTION"
    /\ \A i \in 1..(Len(seq) - 1) :
          ~SigEq(Signature(seq[i]), Signature(seq[i + 1]))
    /\ \A i \in 1..(Len(seq) - 2) :
          SigEq(Signature(seq[i]), Signature(seq[i + 2]))

\* C34: a run whose oracle alternates between two distinct ACTIONs never
\* ends through loop detection
C34_AlternationNeverLoops == Alternates(thoughts) => exit_point # "loop"

\* ------------------------------------------------------------------------
\* the kind is present but is not STOP, RESPONSE or ACTION
OtherKind(a) == a.type \notin {"STOP", "RESPONSE", "ACTION", "none", Absent}

\* the run is over, every answer of its oracle had such a kind, and the
\* answer's key was never denied
OtherKindRunOver ==
    /\ pc = "done"
    /\ Len(thoughts) >= 1
    /\ \A i \in 1..Len(thoughts) : OtherKind(thoughts[i])
    /\ \A i \in 1..Len(thoughts) : ActionKey(thoughts[i]) \notin denied

IllFormed(raw) ==
    \/ raw.json # "object"
    \/ raw.output.type = Absent

\* C36: next_action never raises and always returns an action with a kind;
\* for ill-formed output that kind is RESPONSE when a message longer than 20
\* characters could be extracted from text that does not parse, and STOP
\* otherwise
C36_NextActionTotal ==
    /\ pc # "next_action_raised"
    /\ pc # "returned_value"
    /\ pc = "returned"
        => /\ action.type \notin {Absent, "none"}
           /\ IllFormed(llm_output)
                => IF llm_output.json = "invalid" /\ llm_output.message_len > 20
                   THEN action.type = "RESPONSE"
                   ELSE IF llm_output.json = "invalid"
                   THEN action.type \in {"RESPONSE", "STOP"}
                   ELSE action.type = "STOP"

\* ------------------------------------------------------------------------
\* the identifiers test_tools.py executes and those of the online-only set
ExercisedTools == {"SHELL_EXECUTE", "OPEN_BROWSER"} \cup ONLINE_ONLY_TOOLS

\* C37: an ACTION for one of these identifiers executed while online on a
\* fresh Executor names a registered tool and is never answered with
\* 'Tool not found'
C37_ExercisedToolsRegistered ==
    (Executed /\ ~is_offline /\ action.type = "ACTION"
     /\ ActionTool(action) \in ExercisedTools)
        => /\ ActionTool(action) \in RegisteredTools
           /\ exec_path # "not_found"

\* ------------------------------------------------------------------------
\* C38: once a run has returned its AgentResult, the trace of that result
\* does not change, also while a later run on the same controller executes
C38_ResultTraceStable ==
    [][(runs >= 2 \/ pc = "done") => ResultTrace' = ResultTrace]_vars

\* ------------------------------------------------------------------------
\* C39: after a dispatch in which the shell tool raised, the observation says
\* that the action failed, and the error text that becomes last_error is not
\* empty
C39_FailureReported ==
    (Observed /\ ~success /\ exec_path = "SHELL_EXECUTE")
        => /\ observation = <<"Action failed with error: ", error>>
           /\ error \notin {NoneStr, ""}
====
